---- MODULE Spec2Model ----
(***************************************************************************)
(* Model of app.py: load_and_clean (CSV clean-up, merged State+Year split, *)
(* ID assignment, numeric coercion, crime_cols), top5_from_df, and the     *)
(* two filter routes update_year / update_state.  make_bar_div and the     *)
(* index route only read what they are given and are not modelled.         *)
(*                                                                         *)
(* Text is a sequence of one-character strings.  A cell is a record        *)
(*   [t, s, n]: t = "str" (text s), "num" (finite number n), "pinf",       *)
(*   "ninf" (float infinities) or "nan" (missing / NaN).                   *)
(* A DataFrame is [columns, dtypes, data, nrows, attrs], column-oriented.  *)
(***************************************************************************)
EXTENDS Integers, Sequences, FiniteSets, TLC

VARIABLES pc, csv, df_global, split_col, req, df, top5

vars == <<pc, csv, df_global, split_col, req, df, top5>>

(* ------------------------------ bounds --------------------------------- *)
MaxMetricCols == 6
MaxRows == 2
LongRows == 33

(* ------------------------- program constants --------------------------- *)
SampleRows == 30
SplitThreshold == 3
YearDigits == 4
TopN == 5

(* ------------------------------- text ---------------------------------- *)
DigitChars == <<"0", "1", "2", "3", "4", "5", "6", "7", "8", "9">>

IsDigit(c) == \E i \in 1..10 : DigitChars[i] = c

DigitVal(c) == (CHOOSE i \in 1..10 : DigitChars[i] = c) - 1

IsSpace(c) == c = " "

RECURSIVE LStrip(_)
LStrip(s) == IF s # <<>> /\ IsSpace(Head(s)) THEN LStrip(Tail(s)) ELSE s

RECURSIVE RStrip(_)
RStrip(s) ==
  IF s # <<>> /\ IsSpace(s[Len(s)]) THEN RStrip(SubSeq(s, 1, Len(s) - 1)) ELSE s

\* str.strip()
Strip(s) == RStrip(LStrip(s))

\* str.replace(',', '')
RemoveCommas(s) == SelectSeq(s, LAMBDA c : c # ",")

AllDigits(s) == \A i \in 1..Len(s) : IsDigit(s[i])

RECURSIVE DigitsVal(_)
DigitsVal(s) ==
  IF s = <<>> THEN 0 ELSE 10 * DigitsVal(SubSeq(s, 1, Len(s) - 1)) + DigitVal(s[Len(s)])

RECURSIVE DigitsOf(_)
DigitsOf(n) ==
  IF n < 10 THEN <<DigitChars[n + 1]>>
  ELSE DigitsOf(n \div 10) \o <<DigitChars[(n % 10) + 1]>>

(* ------------------------------ cells ---------------------------------- *)
Str(s) == [t |-> "str", s |-> s, n |-> 0]
Num(n) == [t |-> "num", s |-> <<>>, n |-> n]
PInf == [t |-> "pinf", s |-> <<>>, n |-> 0]
NInf == [t |-> "ninf", s |-> <<>>, n |-> 0]
NaN == [t |-> "nan", s |-> <<>>, n |-> 0]

\* Text of a signed integer
IntText(n) == IF n < 0 THEN <<"-">> \o DigitsOf(-n) ELSE DigitsOf(n)

\* astype(str) of one cell of a column of the given dtype
AsStr(c, dtype) ==
  CASE c.t = "str" -> c.s
    [] c.t = "nan" -> <<"n", "a", "n">>
    [] c.t = "pinf" -> <<"i", "n", "f">>
    [] c.t = "ninf" -> <<"-", "i", "n", "f">>
    [] c.t = "num" ->
         IF dtype = "float64" THEN IntText(c.n) \o <<".", "0">> ELSE IntText(c.n)

\* The position of the decimal point in s, 0 if none
PointPos(s) == IF \E i \in 1..Len(s) : s[i] = "."
               THEN CHOOSE i \in 1..Len(s) : s[i] = "." /\ \A j \in 1..(i - 1) : s[j] # "."
               ELSE 0

\* A numeral grammar without the decimal point
IsNumeralDigitsOnly(u) == u # <<>> /\ AllDigits(u)

\* The unsigned numeral grammar of the parser: digits, or digits "." zeros.
\* Texts with a non-zero fractional digit are not among the model's inputs.
IsNumeral(u) ==
  LET p == PointPos(u) IN
    IF p = 0 THEN u # <<>> /\ AllDigits(u)
    ELSE /\ p > 1
         /\ AllDigits(SubSeq(u, 1, p - 1))
         /\ \A i \in (p + 1)..Len(u) : u[i] = "0"

NumeralVal(u) ==
  LET p == PointPos(u) IN
    IF p = 0 THEN DigitsVal(u) ELSE DigitsVal(SubSeq(u, 1, p - 1))

\* Parsing one text as a number: [ok, isint, val].  Surrounding whitespace
\* is skipped, a sign is accepted, "inf" and "nan" are floats.
ParseUnsigned(u, neg) ==
  IF u = <<"n", "a", "n">> THEN [ok |-> TRUE, isint |-> FALSE, val |-> NaN]
  ELSE IF u = <<"i", "n", "f">>
    THEN [ok |-> TRUE, isint |-> FALSE, val |-> IF neg THEN NInf ELSE PInf]
  ELSE IF IsNumeral(u)
    THEN [ok |-> TRUE, isint |-> PointPos(u) = 0,
          val |-> Num((IF neg THEN -1 ELSE 1) * NumeralVal(u))]
  ELSE [ok |-> FALSE, isint |-> FALSE, val |-> NaN]

ParseStripped(w) ==
  ParseUnsigned(IF w # <<>> /\ Head(w) \in {"-", "+"} THEN Tail(w) ELSE w,
                w # <<>> /\ Head(w) = "-")

ParseNumber(s) == ParseStripped(Strip(s))

\* == on two floats (NaN equals nothing)
NumEq(a, b) ==
  /\ a.t # "nan" /\ b.t # "nan"
  /\ a.t = b.t
  /\ a.t = "num" => a.n = b.n

\* a > b on floats (false when either is NaN)
NumGt(a, b) ==
  CASE a.t = "nan" \/ b.t = "nan" -> FALSE
    [] a.t = "pinf" -> b.t # "pinf"
    [] a.t = "ninf" -> FALSE
    [] OTHER -> (b.t = "ninf") \/ (b.t = "num" /\ a.n > b.n)

\* a + b on floats
NumAdd(a, b) ==
  CASE a.t = "nan" \/ b.t = "nan" -> NaN
    [] a.t = "pinf" -> IF b.t = "ninf" THEN NaN ELSE PInf
    [] a.t = "ninf" -> IF b.t = "pinf" THEN NaN ELSE NInf
    [] b.t \in {"pinf", "ninf"} -> b
    [] OTHER -> Num(a.n + b.n)

(* ---------------------------- DataFrame -------------------------------- *)
NoAttrs == [k \in {} |-> <<>>]

\* pd.DataFrame()
EmptyDF == [columns |-> <<>>, dtypes |-> [c \in {} |-> ""],
            data |-> [c \in {} |-> <<>>], nrows |-> 0, attrs |-> NoAttrs]

Range(q) == {q[i] : i \in 1..Len(q)}

ColSet(d) == Range(d.columns)

HasColumn(d, name) == name \in ColSet(d)

\* df[name] = cells : replaces the column in place, or appends a new one
SetColumn(d, name, cells, dtype) ==
  [d EXCEPT
     !.columns = IF HasColumn(d, name) THEN d.columns ELSE Append(d.columns, name),
     !.dtypes = [c \in ColSet(d) \cup {name} |-> IF c = name THEN dtype ELSE d.dtypes[c]],
     !.data = [c \in ColSet(d) \cup {name} |-> IF c = name THEN cells ELSE d.data[c]]]

\* df.drop(columns=[name])
DropColumn(d, name) ==
  [d EXCEPT
     !.columns = SelectSeq(d.columns, LAMBDA c : c # name),
     !.dtypes = [c \in ColSet(d) \ {name} |-> d.dtypes[c]],
     !.data = [c \in ColSet(d) \ {name} |-> d.data[c]]]

\* The increasing sequence of the members of a set of row positions
RECURSIVE Ascending(_)
Ascending(S) ==
  IF S = {} THEN <<>>
  ELSE LET m == CHOOSE x \in S : \A y \in S : x <= y
       IN  <<m>> \o Ascending(S \ {m})

\* The cells of a column at the given row positions
RECURSIVE TakeRows(_, _)
TakeRows(cells, idx) ==
  IF idx = <<>> THEN <<>> ELSE <<cells[Head(idx)]>> \o TakeRows(cells, Tail(idx))

\* The rows of every named column at the given positions
RECURSIVE TakeAll(_, _, _)
TakeAll(names, data, idx) ==
  IF names = <<>> THEN <<>>
  ELSE (Head(names) :> TakeRows(data[Head(names)], idx)) @@ TakeAll(Tail(names), data, idx)

\* df[mask] : the rows at the positions where keep holds, in order; the
\* columns, dtypes and attrs are carried over
FilterRows(d, keep(_)) ==
  LET idx == Ascending({i \in 1..d.nrows : keep(i)})
  IN  [d EXCEPT !.data = TakeAll(d.columns, d.data, idx), !.nrows = Len(idx)]

\* pd.to_numeric(column, errors='coerce'): a numeric column is returned as it
\* is; an object column is parsed cell by cell, a failure giving NaN.  The
\* result is int64 when every cell is a text that parses as an integer.
ToNumericCell(c) ==
  IF c.t = "str" THEN ParseNumber(c.s) ELSE [ok |-> TRUE, isint |-> FALSE, val |-> c]

ToNumericParsed(parsed) ==
  [cells |-> [i \in 1..Len(parsed) |-> parsed[i].val],
   dtype |-> IF \A i \in 1..Len(parsed) : parsed[i].ok /\ parsed[i].isint
             THEN "int64" ELSE "float64"]

ToNumeric(cells, dtype) ==
  IF dtype \in {"int64", "float64"} THEN [cells |-> cells, dtype |-> dtype]
  ELSE ToNumericParsed([i \in 1..Len(cells) |-> ToNumericCell(cells[i])])

\* .fillna(0)
FillNa0(cells) == [i \in 1..Len(cells) |-> IF cells[i].t = "nan" THEN Num(0) ELSE cells[i]]

\* Series.replace('', '0') on one text
EmptyToZero(s) == IF s = <<>> THEN <<"0">> ELSE s

\* pd.to_numeric(df[c].astype(str).str.replace(',', '').str.strip()
\*               .replace('', '0'), errors='coerce').fillna(0)
FillColumn(parsed) == [cells |-> FillNa0(parsed.cells), dtype |-> parsed.dtype]

CoerceColumn(cells, dtype) ==
  FillColumn(ToNumeric([i \in 1..Len(cells) |->
                          Str(EmptyToZero(Strip(RemoveCommas(AsStr(cells[i], dtype)))))],
                       "object"))

\* Series.sum() of a numeric column (NaN skipped)
RECURSIVE ColSum(_)
ColSum(cells) ==
  IF cells = <<>> THEN Num(0)
  ELSE LET rest == ColSum(SubSeq(cells, 1, Len(cells) - 1))
           last == cells[Len(cells)]
       IN  IF last.t = "nan" THEN rest ELSE NumAdd(rest, last)

\* x != 0 on a float
NonZero(v) == ~(v.t = "num" /\ v.n = 0)

(* ------------------------- load_and_clean ------------------------------ *)
\* str(c).strip() of a header name; a header is [name, padded]
StripName(h) == h.name

\* df.columns.str.contains('^Unnamed')
IsUnnamed(name) == name \in {"Unnamed: 0", "Unnamed: 1"}

\* pd.read_csv, then the stripped column names
ReadCsv(file) ==
  LET names == [i \in 1..Len(file.header) |-> StripName(file.header[i])]
  IN  [columns |-> names,
       dtypes |-> [c \in Range(names) |-> "object"],
       data |-> [c \in Range(names) |->
                   file.cells[CHOOSE i \in 1..Len(names) : names[i] = c]],
       nrows |-> file.nrows,
       attrs |-> NoAttrs]

\* df.loc[:, ~df.columns.str.contains('^Unnamed', na=False)]
DropUnnamed(d) ==
  LET keep == SelectSeq(d.columns, LAMBDA c : ~IsUnnamed(c))
  IN  [d EXCEPT !.columns = keep,
                !.dtypes = [c \in Range(keep) |-> d.dtypes[c]],
                !.data = [c \in Range(keep) |-> d.data[c]]]

\* df.dropna(axis=1, how='all')
DropAllEmpty(d) ==
  LET keep == SelectSeq(d.columns,
                 LAMBDA c : \E i \in 1..d.nrows : d.data[c][i].t # "nan")
  IN  [d EXCEPT !.columns = keep,
                !.dtypes = [c \in Range(keep) |-> d.dtypes[c]],
                !.data = [c \in Range(keep) |-> d.data[c]]]

\* re.search(r'\D+\d{4}$', s): s ends with a non-digit and then 4 digits
MergedMatch(s) ==
  /\ Len(s) >= YearDigits + 1
  /\ AllDigits(SubSeq(s, Len(s) - YearDigits + 1, Len(s)))
  /\ ~IsDigit(s[Len(s) - YearDigits])

\* The sample without head(30)
SampleAll(d, col) == [i \in 1..d.nrows |-> AsStr(d.data[col][i], d.dtypes[col])]

\* df[col].astype(str).head(30).tolist()
Sample(d, col) ==
  LET k == IF d.nrows < SampleRows THEN d.nrows ELSE SampleRows
  IN  [i \in 1..k |-> AsStr(d.data[col][i], d.dtypes[col])]

\* sum(1 for v in sample if re.search(...))
Matches(sample) == Cardinality({i \in 1..Len(sample) : MergedMatch(sample[i])})

\* ... >= 3
Qualifies(d, col) == Matches(Sample(d, col)) >= SplitThreshold

\* The for loop with its break, from the column at position i on: the
\* position of the first column that qualifies, 0 when the loop ends
\* without one
RECURSIVE FirstQualifyingFrom(_, _)
FirstQualifyingFrom(d, i) ==
  IF i > Len(d.columns) THEN 0
  ELSE IF Qualifies(d, d.columns[i]) THEN i
  ELSE FirstQualifyingFrom(d, i + 1)

FirstQualifying(d) == FirstQualifyingFrom(d, 1)

\* str.extract(r'(.+?)(\d{4})$') on one text: a match needs 4 final digits
\* after at least one character
ExtractOk(s) ==
  /\ Len(s) >= YearDigits + 1
  /\ AllDigits(SubSeq(s, Len(s) - YearDigits + 1, Len(s)))

ExtractState(s) == IF ExtractOk(s) THEN Str(SubSeq(s, 1, Len(s) - YearDigits)) ELSE NaN

ExtractYear(s) ==
  IF ExtractOk(s) THEN Str(SubSeq(s, Len(s) - YearDigits + 1, Len(s))) ELSE NaN

\* .str.strip() on an object cell (NaN stays NaN)
StripCell(c) == IF c.t = "str" THEN Str(Strip(c.s)) ELSE c

\* df[name] = a result of pd.to_numeric
SetNumeric(d, name, parsed) == SetColumn(d, name, parsed.cells, parsed.dtype)

\* The body of the if in the loop, given the texts of the column:
\* df['State'], df['Year'], drop(col)
SplitTexts(d, col, texts) ==
  DropColumn(
    SetNumeric(
      SetColumn(d, "State",
                [i \in 1..d.nrows |-> StripCell(ExtractState(texts[i]))], "object"),
      "Year",
      ToNumeric([i \in 1..d.nrows |-> ExtractYear(texts[i])], "object")),
    col)

SplitColumn(d, col) ==
  SplitTexts(d, col, [i \in 1..d.nrows |-> AsStr(d.data[col][i], d.dtypes[col])])

\* The loop's effect when its first qualifying column is at position p
SplitAt(d, p) == IF p = 0 THEN d ELSE SplitColumn(d, d.columns[p])

\* if 'Year' in df.columns: pd.to_numeric(df['Year'], errors='coerce')
EnsureYear(d) ==
  IF HasColumn(d, "Year")
  THEN SetNumeric(d, "Year", ToNumeric(d.data["Year"], d.dtypes["Year"]))
  ELSE d

\* if 'State' in df.columns: df['State'].astype(str).str.strip()
EnsureState(d) ==
  IF HasColumn(d, "State")
  THEN SetColumn(d, "State",
                 [i \in 1..d.nrows |->
                    Str(Strip(AsStr(d.data["State"][i], d.dtypes["State"])))],
                 "object")
  ELSE d

\* range(len(df))
IdRangeFromZero(n) == [i \in 1..n |-> Num(i - 1)]

\* range(1, len(df) + 1)
IdRange(n) == [i \in 1..n |-> Num(i)]

\* df.insert(0, 'ID', range(1, len(df) + 1)); raises when ID exists already
InsertId(d) ==
  [d EXCEPT
     !.columns = <<"ID">> \o d.columns,
     !.dtypes = [c \in ColSet(d) \cup {"ID"} |-> IF c = "ID" THEN "int64" ELSE d.dtypes[c]],
     !.data = [c \in ColSet(d) \cup {"ID"} |->
                 IF c = "ID" THEN IdRange(d.nrows) ELSE d.data[c]]]

NonCrime == {"ID", "State", "Year"}

\* [c for c in df.columns if c not in non_crime]
Candidates(d) == SelectSeq(d.columns, LAMBDA c : c \notin NonCrime)

\* The columns cols of d replaced by their coerced versions
SetCoerced(d, cols, coerced) ==
  [d EXCEPT
     !.dtypes = [c \in ColSet(d) |->
                   IF c \in Range(cols) THEN coerced[c].dtype ELSE d.dtypes[c]],
     !.data = [c \in ColSet(d) |->
                 IF c \in Range(cols) THEN coerced[c].cells ELSE d.data[c]]]

\* for c in crime_cols: df[c] = pd.to_numeric(...).fillna(0)
CoerceAll(d, cols) ==
  SetCoerced(d, cols, [c \in Range(cols) |-> CoerceColumn(d.data[c], d.dtypes[c])])

\* df.attrs['crime_cols'] = crime_cols
SetCrimeCols(d, crime_cols) == [d EXCEPT !.attrs = [k \in {"crime_cols"} |-> crime_cols]]

\* Lines 62-68: an empty list falls back to all the candidates, coerced
\* again, and the list is stored in df.attrs
FallBack(d, kept) ==
  IF Len(kept) = 0 THEN SetCrimeCols(CoerceAll(d, Candidates(d)), Candidates(d))
  ELSE SetCrimeCols(d, kept)

\* Line 59: the zero-sum columns leave the list, then lines 62-68
DropZeroSums(d, cand) ==
  FallBack(d, SelectSeq(cand, LAMBDA c : NonZero(ColSum(d.data[c]))))

\* Lines 50-68: the candidates are coerced, the zero-sum ones leave the
\* list, an empty list falls back to all the candidates (coerced again),
\* and the list is stored in df.attrs
NumericCoercion(d) == DropZeroSums(CoerceAll(d, Candidates(d)), Candidates(d))

\* Lines 22-27 of load_and_clean: the schema clean-up before the split
SchemaCleanup(file) == DropAllEmpty(DropUnnamed(ReadCsv(file)))

\* Lines 46-70: the ID, the coercion and the result [raised, split, df]
AssignIds(d, split) ==
  IF HasColumn(d, "ID")
  THEN [raised |-> TRUE, split |-> "", df |-> EmptyDF]
  ELSE [raised |-> FALSE, split |-> split, df |-> NumericCoercion(InsertId(d))]

\* Lines 29-70, the first qualifying column being at position p
Restructure(d, p) ==
  AssignIds(EnsureState(EnsureYear(SplitAt(d, p))),
            IF p = 0 THEN "" ELSE d.columns[p])

\* Lines 22-70
Clean(d) == Restructure(d, FirstQualifying(d))

\* load_and_clean(): [raised, split, df]
load_and_clean(file) ==
  IF ~file.exists THEN [raised |-> FALSE, split |-> "", df |-> EmptyDF]
  ELSE Clean(SchemaCleanup(file))

(* --------------------------- top5_from_df ------------------------------ *)
\* A Series is a sequence of [label, value] with distinct labels
Entry(l, v) == [label |-> l, value |-> v]

Placeholders == <<"NoData1", "NoData2", "NoData3", "NoData4", "NoData5">>

\* pd.Series([0,0,0,0,0], index=["NoData1", ..., "NoData5"])
NoDataSeries == [i \in 1..TopN |-> Entry(Placeholders[i], Num(0))]

\* e must come before f in a descending sort (NaN goes last)
Precedes(e, f) ==
  \/ e.value.t # "nan" /\ f.value.t = "nan"
  \/ NumGt(e.value, f.value)

\* sort_values(ascending=False): every order of the entries that is
\* descending by value; the order among equal values is the sort's own
RECURSIVE SortedOrders(_)
SortedOrders(S) ==
  IF S = {} THEN {<<>>}
  ELSE UNION {{<<e>> \o r : r \in SortedOrders(S \ {e})} :
                e \in {x \in S : \A y \in S : ~Precedes(y, x)}}

SortValues(series) == SortedOrders(Range(series))

\* .head(5)
Head5(series) == SubSeq(series, 1, IF Len(series) < TopN THEN Len(series) ELSE TopN)

\* series[label] = v : sets the entry with that label, or appends one
SetItem(series, l, v) ==
  IF \E i \in 1..Len(series) : series[i].label = l
  THEN [i \in 1..Len(series) |->
          IF series[i].label = l THEN Entry(l, v) ELSE series[i]]
  ELSE Append(series, Entry(l, v))

\* for i in range(missing): top5[f"NoData{i+1}"] = 0
RECURSIVE PadLoop(_, _, _)
PadLoop(series, i, missing) ==
  IF i > missing THEN series
  ELSE PadLoop(SetItem(series, Placeholders[i], Num(0)), i + 1, missing)

Pad(series) ==
  IF Len(series) < TopN THEN PadLoop(series, 1, TopN - Len(series)) ELSE series

\* df.attrs.get('crime_cols', [c for c in df.columns if c not in {...}])
CrimeCols(d) ==
  IF "crime_cols" \in DOMAIN d.attrs THEN d.attrs["crime_cols"] ELSE Candidates(d)

\* df[crime_cols].sum()
Sums(d) ==
  LET cc == CrimeCols(d)
  IN  [i \in 1..Len(cc) |-> Entry(cc[i], ColSum(d.data[cc[i]]))]

\* head(5) of the positive sums alone
Top5OfPositive(sorted) == Head5(SelectSeq(sorted, LAMBDA e : NumGt(e.value, Num(0))))

\* sums[sums > 0], then head(5) of it or of all the sums
Top5Of(sorted) ==
  LET positive == SelectSeq(sorted, LAMBDA e : NumGt(e.value, Num(0)))
  IN  IF Len(positive) < TopN THEN Head5(sorted) ELSE Head5(positive)

\* top5_from_df(df): the Series it can return, one for each way the two
\* sorts may order equal values.  The last sort sees only which entries the
\* padded Series holds, so it is taken once for each such set of entries.
top5_from_df(d) ==
  IF CrimeCols(d) = <<>> THEN {NoDataSeries}
  ELSE LET padded == {Range(Pad(Top5Of(o))) : o \in SortValues(Sums(d))}
       IN  UNION {{Head5(o) : o \in SortedOrders(p)} : p \in padded}

(* ------------------------------ routes --------------------------------- *)
\* request.form.get(...): a value, or None
FormValue(s) == [given |-> TRUE, text |-> s]
FormNone == [given |-> FALSE, text |-> <<>>]

AllText == <<"A", "l", "l">>

\* "x and x != 'All'"
Selected(v) == v.given /\ v.text # <<>> /\ v.text # AllText

\* The try block of update_year: float(year) raising ValueError or
\* df['Year'] raising KeyError leaves df the unfiltered copy
YearEquals(d, y) ==
  IF y.ok /\ HasColumn(d, "Year")
  THEN FilterRows(d, LAMBDA i : NumEq(d.data["Year"][i], y.val))
  ELSE d

YearFilter(d, v) == IF Selected(v) THEN YearEquals(d, ParseNumber(v.text)) ELSE d

\* df[df['State'] == state]
StateFilter(d, v) ==
  IF Selected(v)
  THEN FilterRows(d, LAMBDA i : d.data["State"][i] = Str(v.text))
  ELSE d

\* update_state raises KeyError when a state is selected and the table has
\* no State column
StateRaises(d, v) == Selected(v) /\ ~HasColumn(d, "State")

NoRequest == [route |-> "", value |-> FormNone, status |-> 0]

(* ------------------------------ inputs --------------------------------- *)
T_Texas == <<"T", "e", "x", "a", "s">>
T_Ohio == <<"O", "h", "i", "o">>
T_Utah == <<"U", "t", "a", "h">>
T_2017 == <<"2", "0", "1", "7">>
T_2018 == <<"2", "0", "1", "8">>
T_1999 == <<"1", "9", "9", "9">>
T_abc == <<"a", "b", "c">>

YearInputs == {FormNone, FormValue(AllText), FormValue(T_2017), FormValue(T_1999),
               FormValue(T_abc)}

StateInputs == {FormNone, FormValue(<<>>), FormValue(AllText), FormValue(T_Texas),
                FormValue(T_Ohio), FormValue(T_Utah)}

H(name) == [name |-> name, padded |-> FALSE]
HPad(name) == [name |-> name, padded |-> TRUE]

MissingFile == [exists |-> FALSE, header |-> <<>>, cells |-> <<>>, nrows |-> 0]

File(header, cells, n) == [exists |-> TRUE, header |-> header, cells |-> cells, nrows |-> n]

MetricPool == <<"Murder", "Rape", "Robbery", "Assault", "Theft", "Arson", "Dowry",
                "Kidnap", "Stalking">>

StateOfRow(r) == IF r % 2 = 1 THEN T_Texas ELSE T_Ohio
YearOfRow(r) == IntText(2016 + r)

\* The crime-count tables: State, Year and k crime columns whose counts
\* follow a profile
Profiles == {"zero", "asc", "sparse", "mixed", "cancel"}

ProfileVal(profile, r, j) ==
  CASE profile = "zero" -> 0
    [] profile = "asc" -> j * r
    [] profile = "sparse" -> IF j <= 2 THEN r ELSE 0
    [] profile = "mixed" -> IF r = 1 THEN 4 - j ELSE IF j = 4 THEN 7 ELSE 0
    [] profile = "cancel" -> IF r = 1 THEN j ELSE IF r = 2 THEN -j ELSE 0

CountFile(names, k, n, profile) ==
  File(<<H("State"), H("Year")>> \o [j \in 1..k |-> H(names[j])],
       <<[r \in 1..n |-> Str(StateOfRow(r))], [r \in 1..n |-> Str(YearOfRow(r))]>>
         \o [j \in 1..k |-> [r \in 1..n |-> Str(IntText(ProfileVal(profile, r, j)))]],
       n)

MaxPlaceholderCols == 2

PlaceholderPool == <<"NoData1", "NoData3", "Murder", "Rape">>

WideProfiles == {"asc", "mixed"}

CountFiles ==
  {CountFile(MetricPool, k, MaxRows, p) : k \in 0..TopN, p \in Profiles}
    \cup {CountFile(MetricPool, k, MaxRows, p) :
            k \in (TopN + 1)..MaxMetricCols, p \in WideProfiles}
    \cup {CountFile(PlaceholderPool, k, MaxRows, p) :
            k \in 1..MaxPlaceholderCols, p \in {"asc", "zero"}}
    \cup {CountFile(MetricPool, k, 0, "zero") : k \in {0, 1}}

Inputs == {MissingFile} \cup CountFiles

\* The tables with merged "State2017"-like columns: two text columns whose
\* rows follow a shape, and four count columns
T_Goa == <<"G", "o", "a">>
T_Zone12345 == <<"Z", "o", "n", "e", "1", "2", "3", "4", "5">>

MergedText(r) ==
  IF r % 2 = 1 THEN T_Texas \o T_2017 ELSE T_Ohio \o <<" ">> \o T_2018

Shapes == {"plain", "head2", "head3", "tail3", "empty"}

ShapeCell(shape, r, n) ==
  CASE shape = "plain" -> Str(T_Goa)
    [] shape = "head2" -> IF r <= 2 THEN Str(MergedText(r)) ELSE Str(T_Goa)
    [] shape = "head3" -> IF r <= 3 THEN Str(MergedText(r))
                          ELSE IF r = 4 THEN Str(T_Zone12345) ELSE Str(T_Goa)
    [] shape = "tail3" -> IF r > n - 3 THEN Str(MergedText(r)) ELSE Str(T_Goa)
    [] shape = "empty" -> NaN

SplitCountCols == 4

SplitFile(name1, shape1, shape2, n) ==
  File(<<H(name1), HPad("Area")>> \o [j \in 1..SplitCountCols |-> H(MetricPool[j])],
       <<[r \in 1..n |-> ShapeCell(shape1, r, n)], [r \in 1..n |-> ShapeCell(shape2, r, n)]>>
         \o [j \in 1..SplitCountCols |-> [r \in 1..n |-> Str(IntText(j * r))]],
       n)

ShortRows == 4

SplitFiles ==
  {SplitFile("Place", s1, s2, n) : s1 \in Shapes, s2 \in Shapes, n \in {ShortRows, LongRows}}
    \cup {SplitFile(name1, s1, s2, ShortRows) :
            name1 \in {"State", "Year", "ID", "Unnamed: 0"},
            s1 \in {"plain", "head3"}, s2 \in {"plain", "head3"}}

\* The tables whose first count column holds raw cell texts
CellTexts ==
  {Str(<<"7">>), Str(<<"1", ",", "2", "3", "4">>), Str(<<" ", "3", " ">>), NaN,
   Str(<<" ">>), Str(T_abc), Str(<<"-", "5">>), Str(<<"i", "n", "f">>),
   Str(<<"-", "i", "n", "f">>), Str(<<"2", ".", "0">>), Str(<<"0">>)}

SecondTexts == {Str(<<"7">>), NaN, Str(<<"-", "i", "n", "f">>), Str(<<"5">>)}

CoerceCountCols == 4

CoerceFile(t1, t2) ==
  File(<<H("Year"), HPad("Dowry")>> \o [j \in 1..CoerceCountCols |-> H(MetricPool[j])],
       <<<<Str(T_2017), Str(T_abc)>>, <<t1, t2>>>>
         \o [j \in 1..CoerceCountCols |-> [r \in 1..2 |-> Str(IntText(j * r))]],
       2)

CoerceFiles == {CoerceFile(t1, t2) : t1 \in CellTexts, t2 \in SecondTexts}

(* ------------------------------ actions -------------------------------- *)
\* The state before line 72 runs, for a crimes.csv from a set of files
InitWith(files) ==
  /\ pc = "import"
  /\ csv \in files
  /\ df_global = EmptyDF
  /\ split_col = ""
  /\ req = NoRequest
  /\ df = EmptyDF
  /\ top5 = <<>>

Init == InitWith(Inputs)

InitSplit == InitWith(SplitFiles)

InitCoerce == InitWith(CoerceFiles)

\* df_global = load_and_clean(), at import
LoadModule ==
  /\ pc = "import"
  /\ \E r \in {load_and_clean(csv)} :
       /\ pc' = IF r.raised THEN "failed" ELSE "serving"
       /\ df_global' = r.df
       /\ split_col' = r.split
  /\ UNCHANGED <<csv, req, df, top5>>

\* update_year filtering the cached table itself
update_year_in_place ==
  /\ pc = "serving"
  /\ req = NoRequest
  /\ \E year \in YearInputs :
       \E d \in {YearFilter(df_global, year)} :
         /\ df' = d
         /\ df_global' = d
         /\ top5' \in top5_from_df(d)
         /\ req' = [route |-> "update_year", value |-> year, status |-> 200]
  /\ UNCHANGED <<pc, csv, split_col>>

\* POST /update_year
update_year ==
  /\ pc = "serving"
  /\ req = NoRequest
  /\ \E year \in YearInputs :
       \E d \in {YearFilter(df_global, year)} :
         /\ df' = d
         /\ top5' \in top5_from_df(d)
         /\ req' = [route |-> "update_year", value |-> year, status |-> 200]
  /\ UNCHANGED <<pc, csv, df_global, split_col>>

\* POST /update_state
update_state ==
  /\ pc = "serving"
  /\ req = NoRequest
  /\ \E state \in StateInputs :
       IF StateRaises(df_global, state)
       THEN /\ df' = df_global
            /\ top5' = <<>>
            /\ req' = [route |-> "update_state", value |-> state, status |-> 500]
       ELSE \E d \in {StateFilter(df_global, state)} :
              /\ df' = d
              /\ top5' \in top5_from_df(d)
              /\ req' = [route |-> "update_state", value |-> state, status |-> 200]
  /\ UNCHANGED <<pc, csv, df_global, split_col>>

\* return jsonify(...), or the error response: the request is over and its
\* locals are gone
send_response ==
  /\ pc = "serving"
  /\ req # NoRequest
  /\ req' = NoRequest
  /\ df' = EmptyDF
  /\ top5' = <<>>
  /\ UNCHANGED <<pc, csv, df_global, split_col>>

Next == LoadModule \/ update_year \/ update_state \/ send_response

Spec == Init /\ [][Next]_vars

SpecSplit == InitSplit /\ [][Next]_vars

SpecCoerce == InitCoerce /\ [][Next]_vars

(* ------------------------------ claims --------------------------------- *)
\* A request has been answered with a top-5 Series
Answered == pc = "serving" /\ req.status = 200

Labels(series) == {series[i].label : i \in 1..Len(series)}

\* The sum of a column over the rows of the request's subset
SubsetSum(c) == ColSum(df.data[c])

Zero == Num(0)

\* C1: top5_from_df returns exactly 5 (label, value) pairs with 5 distinct
\* labels, ordered by value non-increasing, for every table and row subset,
\* also when a crime column is named like a placeholder.
C1_ExactlyFiveDescending ==
  Answered =>
    /\ Len(top5) = TopN
    /\ Cardinality(Labels(top5)) = TopN
    /\ \A i \in 1..(Len(top5) - 1) : ~NumGt(top5[i + 1].value, top5[i].value)

\* C2: with crimes.csv missing the table is empty and every filter request
\* completes without error and returns NoData1..NoData5, all 0.
C2_MissingFileAllPlaceholders ==
  (pc = "serving" /\ ~csv.exists) =>
    /\ df_global = EmptyDF
    /\ req # NoRequest => (req.status = 200 /\ top5 = NoDataSeries)

\* C3: after load_and_clean every cell of every column other than ID, State
\* and Year is a finite non-negative number.
C3_MetricCellsFiniteNonNegative ==
  pc = "serving" =>
    \A c \in Range(Candidates(df_global)) :
      \A i \in 1..df_global.nrows :
        /\ df_global.data[c][i].t = "num"
        /\ df_global.data[c][i].n >= 0

\* C4: no update_year or update_state request changes the cached table
\* df_global (rows, cells, columns, crime_cols).
C4_RequestsLeaveTableAlone == [][pc = "serving" => df_global' = df_global]_vars

\* C4 witness: a request has been answered from a proper row subset.
C4_Witness == Answered /\ df.nrows > 0 /\ df.nrows < df_global.nrows

\* C5 as stated: when every crime column sums to 0 over the subset, all the
\* values are 0 and every label is a real crime column, also with fewer
\* than 5 crime columns.
C5_ZeroSumsLabelsAllReal ==
  (/\ Answered
   /\ CrimeCols(df) # <<>>
   /\ \A c \in Range(CrimeCols(df)) : SubsetSum(c) = Zero)
  => /\ \A i \in 1..Len(top5) : top5[i].value = Zero
     /\ Labels(top5) \subseteq Range(CrimeCols(df))

\* C5 as amended: when every crime column sums to 0 over the subset, all the
\* values are 0; with at least 5 crime columns every label is a real crime
\* column; with fewer, every crime column is a label and the other labels
\* are NoData placeholders.
C5_ZeroSumsLabels ==
  (/\ Answered
   /\ CrimeCols(df) # <<>>
   /\ \A c \in Range(CrimeCols(df)) : SubsetSum(c) = Zero)
  => /\ \A i \in 1..Len(top5) : top5[i].value = Zero
     /\ Len(CrimeCols(df)) >= TopN => Labels(top5) \subseteq Range(CrimeCols(df))
     /\ Len(CrimeCols(df)) < TopN =>
          /\ Range(CrimeCols(df)) \subseteq Labels(top5)
          /\ Labels(top5) \subseteq Range(CrimeCols(df)) \cup Range(Placeholders)

\* C5 witness: a year that matches no row of a table with more than 5 crime
\* columns, some of them non-zero over the whole table.
C5_Witness ==
  /\ Answered
   /\ Len(CrimeCols(df)) > TopN
   /\ df_global.nrows > 0 /\ df.nrows = 0
   /\ \E c \in Range(CrimeCols(df)) : ColSum(df_global.data[c]) # Zero
   /\ Len(top5) = TopN

\* The number of the first 30 raw values of a column of the cleaned table
\* that end with a non-digit and 4 digits
MatchCount(d, col) ==
  Cardinality({i \in 1..d.nrows :
                 /\ i <= SampleRows
                 /\ MergedMatch(AsStr(d.data[col][i], d.dtypes[col]))})

ColPos(d, col) == CHOOSE i \in 1..Len(d.columns) : d.columns[i] = col

\* C6: a column is split only if at least 3 of its first 30 values match;
\* the split column is the leftmost such column, and every other column of
\* the table is left unsplit (it is still a column of the result).
C6_OnlyLeftmostQualifyingSplit ==
  pc = "serving" /\ csv.exists =>
    \A d0 \in {SchemaCleanup(csv)} :
      /\ split_col # "" =>
           /\ HasColumn(d0, split_col)
           /\ MatchCount(d0, split_col) >= SplitThreshold
           /\ \A j \in 1..(ColPos(d0, split_col) - 1) :
                MatchCount(d0, d0.columns[j]) < SplitThreshold
      /\ split_col = "" =>
           /\ \A c \in ColSet(d0) : MatchCount(d0, c) < SplitThreshold
           /\ df_global.columns = <<"ID">> \o d0.columns
      /\ ColSet(d0) \ ColSet(df_global) \subseteq {split_col}

\* C6 witness: a column was split and a column to its right that also meets
\* the threshold is still in the table.
C6_Witness ==
  /\ pc = "serving" /\ split_col # ""
  /\ \E d0 \in {SchemaCleanup(csv)} :
       \E j \in 1..Len(d0.columns) :
         /\ j > ColPos(d0, split_col)
         /\ MatchCount(d0, d0.columns[j]) >= SplitThreshold
         /\ HasColumn(df_global, d0.columns[j])

\* C7: the ID column holds 1..N in row order, and every row of a request's
\* filtered subset is the row of the full table with the same ID.
C7_IdsContiguousAndKept ==
  pc = "serving" /\ csv.exists =>
    /\ HasColumn(df_global, "ID")
    /\ \A i \in 1..df_global.nrows : df_global.data["ID"][i] = Num(i)
    /\ Len(df_global.data["ID"]) = df_global.nrows
    /\ Answered =>
         /\ ColSet(df) = ColSet(df_global)
         /\ \A i \in 1..df.nrows :
              LET id == df.data["ID"][i].n
              IN  /\ id \in 1..df_global.nrows
                  /\ \A c \in ColSet(df_global) : df.data[c][i] = df_global.data[c][id]
         /\ \A i \in 1..(df.nrows - 1) : df.data["ID"][i].n < df.data["ID"][i + 1].n

\* C7 witness: a filter kept only the second row, with its ID 2.
C7_Witness ==
  /\ Answered
  /\ df_global.nrows >= 2 /\ df.nrows = 1
  /\ df.data["ID"][1] = Num(2)

\* C8: running the numeric coercion of load_and_clean on the coerced table
\* changes no cell, no dtype and not the crime_cols list.
C8_CoercionIdempotent ==
  pc = "serving" =>
    \A again \in {NumericCoercion(df_global)} :
      /\ again.columns = df_global.columns
      /\ \A c \in ColSet(df_global) :
           /\ again.data[c] = df_global.data[c]
           /\ again.dtypes[c] = df_global.dtypes[c]
      /\ again.attrs["crime_cols"] = df_global.attrs["crime_cols"]

\* C8 witness: a coerced float column holding 1234 (from "1,234") and a
\* zero that replaced a missing value.
C8_Witness ==
  /\ pc = "serving"
  /\ HasColumn(df_global, "Dowry")
  /\ df_global.dtypes["Dowry"] = "float64"
  /\ df_global.data["Dowry"] = <<Num(1234), Num(0)>>

\* The number of columns of a table with a given name
NameCount(d, name) == Cardinality({i \in 1..Len(d.columns) : d.columns[i] = name})

\* C9: whenever a column qualified as the merged column, whatever its name,
\* the table has exactly one State and one Year column and the merged
\* column is gone.
C9_SplitYieldsStateAndYear ==
  pc = "serving" /\ split_col # "" =>
    /\ NameCount(df_global, "State") = 1
    /\ NameCount(df_global, "Year") = 1
    /\ \/ ~HasColumn(df_global, split_col)
       \/ \A i \in 1..df_global.nrows :
            ~(df_global.data[split_col][i].t = "str"
              /\ MergedMatch(df_global.data[split_col][i].s))

\* C10: with at least 5 crime columns, every value is the sum of its
\* label's column over the subset, no column left out has a greater sum
\* than a value of the result, and with 5 or more non-zero sums no value
\* of the result is 0.
C10_FiveLargestSums ==
  Answered /\ Len(CrimeCols(df)) >= TopN =>
    /\ \A i \in 1..Len(top5) :
         /\ top5[i].label \in Range(CrimeCols(df))
         /\ top5[i].value = SubsetSum(top5[i].label)
    /\ \A c \in Range(CrimeCols(df)) \ Labels(top5) :
         \A i \in 1..Len(top5) : ~NumGt(SubsetSum(c), top5[i].value)
    /\ Cardinality({c \in Range(CrimeCols(df)) : NonZero(SubsetSum(c))}) >= TopN =>
         \A i \in 1..Len(top5) : NonZero(top5[i].value)

====
